---- MODULE Spec2Model ----
(***************************************************************************)
(* Slide-transition detection of lecture-slide-sync: the Frame Source      *)
(* (generate_video_frame), the SlideTracker and the detection loop that    *)
(* drives the tracker with every sampled frame.                            *)
(***************************************************************************)
EXTENDS Integers, Sequences, FiniteSets, TLC

\* ---------------------------------------------------------------- bounds
HashBits == 2            \* width of a perceptual hash in the model
MaxStep == 2             \* largest frames_step explored
MaxStart == 1            \* largest start_frame_number explored
MaxFrames == 5           \* decoded frames of a video read by a bare consumer
MaxRunFrames == 3        \* decoded frames of an arbitrary video in a detection run
MaxPtsGap == 2           \* largest pts distance of two decoded frames
TicksPerFrame == 2       \* 1 / (time_base * average_rate)
MaxThreshold == 2        \* largest _max_hamming_distance explored
MaxSegment == 3          \* longest page segment of a synthetic video
MaxPages == 3            \* longest deck of a hash lookup
MaxWords == 2            \* longest OCR table handed to the keyword oracle
MaxContours == 2         \* most contours of an image handed to the RoI locator
MaxAccesses == 2         \* most failed RoI computations on one frame
MaxVideo == 3            \* longest video of a first-slide scan, in frames
MaxSeconds == 2          \* largest max_seconds explored
MaxFpsHalves == 3        \* largest frame rate explored, in half frames per second
MaxEntries == 2          \* longest transcript handed to the subtitle merge
MaxMs == 2               \* latest time of a transcript entry or slide change, in ms
MaxSlides == 2           \* most entries of a slide-timestamp map
MaxPairs == 2            \* most video/PDF pairs of a batch
MaxRequests == 2         \* requests the server handles at the same time

\* -------------------------------------------------------- program constants
DEFAULT_CONFIDENCE_THRESHOLD == 80
MIN_WIDTH == 500
MIN_HEIGHT == 500
MIN_AREA == 5000
padding == 5

\* ------------------------------------------------------------ input sets
Hashes == 0 .. (2 ^ HashBits - 1)

Decks == { <<>>, <<3>>, <<1, 2>>, <<0, 1, 3>>, <<3, 3, 0>> }

Metadata == { "ok", "no_average_rate", "no_time_base" }

None == << >>

VARIABLES
    video_kind,            \* "any", "synthetic" or "source" video, or a bare "lookup"
    seg_len,               \* synthetic video: number of frames showing each page
    metadata,              \* whether the stream carries average_rate and time_base
    frames_step,           \* generate_video_frame argument
    start_frame_number,    \* generate_video_frame argument
    roi_coordinates,       \* generate_video_frame argument
    hashes,                \* lecture_slides.hashes
    max_hamming_distance,  \* SlideTracker._max_hamming_distance
    container,             \* "unopened", "open", "closed"
    gen,                   \* generator: "created", "running", "yielded", "done"
    error,                 \* exception that left the generator, "none" otherwise
    seeks,                 \* number of container.seek calls
    decoded,               \* frames delivered by container.decode so far
    last_pts,              \* pts of the last decoded frame that has one
    frame_counter,         \* generate_video_frame local
    frame,                 \* the VideoFrame yielded last
    yields,                \* number of frames yielded
    skipped_all,           \* decoded frames not yielded since the last yield
    skipped_pts,           \* of these, the frames that carry a pts
    elig_pos,              \* pts frames decoded from the first one with number >= start
    all_pos,               \* all frames decoded from the first one with number >= start
    current_slide_index,   \* SlideTracker.current_slide_index
    seen_slide_indices,    \* SlideTracker.seen_slide_indices
    slide_changes,         \* Slide Transition Map, in insertion order
    lookup_result,         \* what find_most_similar_slide_index returned last
    pc,                    \* control state of the operation under study
    ocr_data,              \* OCR table of the frame handed to the keyword oracle
    keywords,              \* are_all_keywords_present argument
    confidence_threshold,  \* are_all_keywords_present argument
    oracle_result,         \* what are_all_keywords_present returned
    image,                 \* frame image handed to the RoI locator
    roi_result,            \* outcome of the RoI locator
    video,                 \* frames cv2.VideoCapture reads from the video file
    max_seconds,           \* find_first_slide argument
    fps_halves,            \* cap.get(cv2.CAP_PROP_FPS), in half frames per second
    max_attempts,          \* find_first_slide local
    frame_count,           \* find_first_slide loop variable
    cap,                   \* cv2.VideoCapture: "unopened", "open", "released"
    evaluated,             \* frame counts the keyword oracle was applied to, in order
    first_slide_result,    \* what find_first_slide returned
    current_frame_index,   \* detect_slide_transitions local, in half frames
    run_result,            \* how detect_slide_transitions ended
    srt_content,           \* transcript handed to merge_srt_by_slide_ranges, in file order
    slide_timestamps,      \* dict slide index -> seconds, as its items in insertion order
    merge_result,          \* outcome of merge_srt_by_slide_ranges
    chapter_metadata,      \* chapters written by generate_ffmpeg_metadata
    video_pdf_pairs,       \* batch_detect: the pairs found in the uploaded ZIP
    generate_chapters,     \* batch_detect form field
    pair_index,            \* batch_detect: number of pairs the loop has handled
    results_dir,           \* batch_detect: files in tmp_dir / "results" as <<path, content>>
    batch_response,        \* what batch_detect answered
    requests,              \* the requests the server is handling
    media_folder           \* MEDIA_FOLDER: files as <<path, content>>

source_vars == <<container, gen, error, seeks, decoded, last_pts, frame_counter, frame,
                 yields, skipped_all, skipped_pts, elig_pos, all_pos>>
tracker_vars == <<current_slide_index, seen_slide_indices, slide_changes, lookup_result>>
input_vars == <<video_kind, seg_len, metadata, frames_step, start_frame_number, roi_coordinates,
                hashes, max_hamming_distance>>
oracle_vars == <<ocr_data, keywords, confidence_threshold, oracle_result>>
roi_vars == <<image, roi_result>>
scan_vars == <<video, max_seconds, fps_halves, max_attempts, frame_count, cap, evaluated,
               first_slide_result, current_frame_index, run_result>>
merge_vars == <<srt_content, slide_timestamps, merge_result, chapter_metadata>>
batch_vars == <<video_pdf_pairs, generate_chapters, pair_index, results_dir, batch_response>>
server_vars == <<requests, media_folder>>
service_vars == <<merge_vars, batch_vars, server_vars>>
unit_vars == <<pc, oracle_vars, roi_vars, scan_vars, service_vars>>
vars == <<input_vars, source_vars, tracker_vars, unit_vars>>

\* ------------------------------------------------------------- hashing
RECURSIVE hex_to_hash_from(_, _)
hex_to_hash_from(n, i) ==
    IF i >= HashBits THEN {}
    ELSE (IF n % 2 = 1 THEN {i} ELSE {}) \cup hex_to_hash_from(n \div 2, i + 1)

\* imagehash.hex_to_hash: the hex string as the set of its set bit positions
hex_to_hash(n) == hex_to_hash_from(n, 0)

\* number of differing bits of the two parsed hashes
compute_hamming_distance(hash1, hash2) ==
    LET b1 == hex_to_hash(hash1)
        b2 == hex_to_hash(hash2)
    IN  Cardinality((b1 \ b2) \cup (b2 \ b1))

\* float("inf"): above every distance of HashBits-bit hashes
Inf == HashBits + 1

\* ------------------------------------------------------------ SlideTracker
RECURSIVE scan_hashes(_, _, _, _)
scan_hashes(i, current_hash, min_hamming_distance, most_similar_slide_index) ==
    IF i >= Len(hashes) THEN <<most_similar_slide_index, min_hamming_distance>>
    ELSE LET hamming_distance == compute_hamming_distance(current_hash, hashes[i + 1])
         IN  IF hamming_distance < min_hamming_distance
             THEN scan_hashes(i + 1, current_hash, hamming_distance, i)
             ELSE scan_hashes(i + 1, current_hash, min_hamming_distance,
                              most_similar_slide_index)

\* variant: a distance equal to the threshold is not a match
find_most_similar_slide_index_strict(roi_hash, max_distance) ==
    LET r == scan_hashes(0, roi_hash, Inf, -1)
    IN  IF r[2] < max_distance THEN r ELSE None

find_most_similar_slide_index(roi_hash, max_distance) ==
    LET r == scan_hashes(0, roi_hash, Inf, -1)
    IN  IF r[2] <= max_distance THEN r ELSE None

\* variant: the index becomes current without being recorded as seen
mark_slide_as_seen_no_add(index) ==
    /\ seen_slide_indices' = seen_slide_indices
    /\ current_slide_index' = index

\* variant: the set of seen indices is replaced instead of extended
mark_slide_as_seen_forgets(index) ==
    /\ seen_slide_indices' = {index}
    /\ current_slide_index' = index

\* variant: the index is recorded as seen without becoming current
mark_slide_as_seen_keeps_current(index) ==
    /\ seen_slide_indices' = seen_slide_indices \cup {index}
    /\ current_slide_index' = current_slide_index

\* variant: the page after the confirmed one becomes current
mark_slide_as_seen_off_by_one(index) ==
    /\ seen_slide_indices' = seen_slide_indices \cup {index}
    /\ current_slide_index' = index + 1

mark_slide_as_seen(index) ==
    /\ seen_slide_indices' = seen_slide_indices \cup {index}
    /\ current_slide_index' = index

\* variant: nothing counts as seen
has_seen_slide_never(index) == FALSE

\* variant: only the current slide counts as seen
has_seen_slide_last_only(index) == index = current_slide_index

has_seen_slide(index) == index \in seen_slide_indices

\* ---------------------------------------------------------- keyword oracle
\* a text is a sequence of characters; "#" and " " are no word characters
Letters == { "F", "H", "C", "f", "h", "c" }

lower(c) == CASE c = "F" -> "f" [] c = "H" -> "h" [] c = "C" -> "c" [] OTHER -> c

\* str.strip(): leading and trailing blanks removed
RECURSIVE strip(_)
strip(text) ==
    IF text = << >> THEN text
    ELSE IF Head(text) = " " THEN strip(Tail(text))
    ELSE IF text[Len(text)] = " " THEN strip(SubSeq(text, 1, Len(text) - 1))
    ELSE text

\* regular expression \b at position p (between text[p] and text[p + 1])
word_boundary(text, p) ==
    LET before == p > 0 /\ text[p] \in Letters
        after == p < Len(text) /\ text[p + 1] \in Letters
    IN  before # after

\* the pattern's literal characters match at text[i + 1 ..], ignoring case
literal_at(keyword, text, i) ==
    /\ i + Len(keyword) <= Len(text)
    /\ \A j \in 1 .. Len(keyword) : lower(text[i + j]) = lower(keyword[j])

\* variant: the keyword is searched as a substring, without word boundaries
re_search_substring(keyword, text) ==
    \E i \in 0 .. Len(text) : literal_at(keyword, text, i)

\* re.search(rf"\b{keyword}\b", text, re.IGNORECASE) is not None
re_search(keyword, text) ==
    \E i \in 0 .. Len(text) :
        /\ word_boundary(text, i)
        /\ literal_at(keyword, text, i)
        /\ word_boundary(text, i + Len(keyword))

get_matching_keywords(words, keywords_to_match) ==
    { keyword \in keywords_to_match : \E text \in words : re_search(keyword, text) }

\* variant: the comparison with the threshold is inverted
filter_words_by_confidence_inverted(data, threshold) ==
    { strip(data[i].text) : i \in { j \in 1 .. Len(data) : data[j].conf <= threshold } }

filter_words_by_confidence(data, threshold) ==
    { strip(data[i].text) : i \in { j \in 1 .. Len(data) : data[j].conf >= threshold } }

are_all_keywords_present(data, required, threshold) ==
    LET valid_words == filter_words_by_confidence(data, threshold)
        valid_words_non_empty == { strip(word) : word \in { w \in valid_words : strip(w) # << >> } }
        found_keywords == get_matching_keywords(valid_words_non_empty, required)
    IN  required \subseteq found_keywords

\* ------------------------------------------------------------- RoI locator
\* an image: its size and the outer contours cv2.findContours delivers for
\* the padded image, each with its bounding rectangle and its contourArea
BlackImage == [width |-> 600, height |-> 600, contours |-> << >>]

NoResult == [raised |-> "none", value |-> None]

Max(a, b) == IF a >= b THEN a ELSE b

Min(a, b) == IF a <= b THEN a ELSE b

\* variant: the contours are compared by the area of their bounding boxes
RECURSIVE max_by_bounding_box(_, _, _)
max_by_bounding_box(contours, i, best) ==
    IF i > Len(contours) THEN best
    ELSE IF contours[i].w * contours[i].h > contours[best].w * contours[best].h
         THEN max_by_bounding_box(contours, i + 1, i)
         ELSE max_by_bounding_box(contours, i + 1, best)

\* max(contours, key=cv2.contourArea): the first contour of the largest area
RECURSIVE max_by_area(_, _, _)
max_by_area(contours, i, best) ==
    IF i > Len(contours) THEN best
    ELSE IF contours[i].area > contours[best].area
         THEN max_by_area(contours, i + 1, i)
         ELSE max_by_area(contours, i + 1, best)

\* variant: the padding is removed without clipping to the image
compute_roi_coordinates_unclipped(img) ==
    IF img.contours = << >> THEN [raised |-> "ValueError", value |-> None]
    ELSE LET largest_contour == img.contours[max_by_area(img.contours, 1, 1)]
             bottom_right_x == largest_contour.x + largest_contour.w
             bottom_right_y == largest_contour.y + largest_contour.h
             largest_contour_area == largest_contour.w * largest_contour.h
         IN  IF \/ largest_contour.w < MIN_WIDTH
                \/ largest_contour.h < MIN_HEIGHT
                \/ largest_contour_area < MIN_AREA
             THEN [raised |-> "ValueError", value |-> None]
             ELSE [raised |-> "none",
                   value |-> << largest_contour.x - padding,
                                largest_contour.y - padding,
                                bottom_right_x - padding,
                                bottom_right_y - padding >>]

\* variant: a region of any size is accepted
compute_roi_coordinates_ungated(img) ==
    IF img.contours = << >> THEN [raised |-> "none", value |-> <<0, 0, 0, 0>>]
    ELSE LET largest_contour == img.contours[max_by_area(img.contours, 1, 1)]
             bottom_right_x == largest_contour.x + largest_contour.w
             bottom_right_y == largest_contour.y + largest_contour.h
         IN  [raised |-> "none",
              value |-> << Max(0, largest_contour.x - padding),
                           Max(0, largest_contour.y - padding),
                           Min(img.width, bottom_right_x - padding),
                           Min(img.height, bottom_right_y - padding) >>]

\* VideoFrame.compute_roi_coordinates
compute_roi_coordinates(img) ==
    IF img.contours = << >> THEN [raised |-> "ValueError", value |-> None]
    ELSE LET largest_contour == img.contours[max_by_area(img.contours, 1, 1)]
             bottom_right_x == largest_contour.x + largest_contour.w
             bottom_right_y == largest_contour.y + largest_contour.h
             largest_contour_area == largest_contour.w * largest_contour.h
         IN  IF \/ largest_contour.w < MIN_WIDTH
                \/ largest_contour.h < MIN_HEIGHT
                \/ largest_contour_area < MIN_AREA
             THEN [raised |-> "ValueError", value |-> None]
             ELSE [raised |-> "none",
                   value |-> << Max(0, largest_contour.x - padding),
                                Max(0, largest_contour.y - padding),
                                Min(img.width, bottom_right_x - padding),
                                Min(img.height, bottom_right_y - padding) >>]

\* ------------------------------------------------------------- VideoFrame
\* a VideoFrame: the dataclass fields frame_number and roi_coordinates, the
\* pts and the image it was decoded from, the values its roi_hash and its
\* text comparison have, the cached properties computed so far and the
\* number of compute_roi_coordinates calls made on it
NoFrame == [frame_number |-> -1, pts |-> -1, roi_hash |-> 0, text_similar |-> FALSE,
            roi_coordinates |-> None, image |-> BlackImage, cached |-> {},
            compute_calls |-> 0]

\* variant: the coordinates are computed whether or not the frame has some
roi_frame_recomputed(f) ==
    LET r == compute_roi_coordinates(f.image)
    IN  IF r.raised = "none"
        THEN [f EXCEPT !.roi_coordinates = r.value, !.compute_calls = @ + 1,
                       !.cached = @ \cup {"roi_frame"}]
        ELSE [f EXCEPT !.compute_calls = @ + 1]

\* body of the cached property roi_frame: the frame after the access; an
\* exception of compute_roi_coordinates leaves nothing cached
roi_frame(f) ==
    IF f.roi_coordinates = None
    THEN LET r == compute_roi_coordinates(f.image)
         IN  IF r.raised = "none"
             THEN [f EXCEPT !.roi_coordinates = r.value, !.compute_calls = @ + 1,
                            !.cached = @ \cup {"roi_frame"}]
             ELSE [f EXCEPT !.compute_calls = @ + 1]
    ELSE [f EXCEPT !.cached = @ \cup {"roi_frame"}]

\* functools.cached_property: the body runs unless the value is cached
cached_roi_frame(f) == IF "roi_frame" \in f.cached THEN f ELSE roi_frame(f)

\* body of the cached property roi_hash: compute_phash(self.roi_frame)
roi_hash(f) ==
    LET g == cached_roi_frame(f)
    IN  IF "roi_frame" \in g.cached THEN [g EXCEPT !.cached = @ \cup {"roi_hash"}] ELSE g

cached_roi_hash(f) == IF "roi_hash" \in f.cached THEN f ELSE roi_hash(f)

\* ------------------------------------------------------------ Frame Source
\* Python's round(): to the nearest integer, a tie to the even one
RoundHalfEven(n, d) ==
    LET q == n \div d
        r == n % d
    IN  IF 2 * r < d THEN q
        ELSE IF 2 * r > d THEN q + 1
        ELSE IF q % 2 = 0 THEN q ELSE q + 1

\* current_frame_number = round(pts * time_base * average_rate)
current_frame_number(pts) == RoundHalfEven(pts, TicksPerFrame)

\* variant: the container is not released
with_exit_leak(c) == c

\* leaving the "with av.open(...)" block closes the container
with_exit(c) == "closed"

\* synthetic video: page k is shown on the frames Boundary(k) .. Boundary(k+1)-1
RECURSIVE Boundary(_)
Boundary(k) == IF k = 0 THEN start_frame_number ELSE Boundary(k - 1) + seg_len[k]

VideoEnd == Boundary(Len(seg_len))

PageAt(n) == CHOOSE k \in 0 .. (Len(seg_len) - 1) : Boundary(k) <= n /\ n < Boundary(k + 1)

\* longest video explored
MaxDecoded == IF video_kind = "source" THEN MaxFrames ELSE MaxRunFrames

\* the RoI the detection run has frozen
FrozenRoi == <<0, 0, 595, 595>>

\* a frame without contours, a frame with a slide, a frame with a small box
SampleImages ==
    { BlackImage,
      [BlackImage EXCEPT !.contours = << [x |-> 7, y |-> 5, w |-> 600, h |-> 500, area |-> 1000] >>],
      [BlackImage EXCEPT !.contours = << [x |-> 0, y |-> 5, w |-> 10, h |-> 499, area |-> 0] >>] }

\* the images a decoded frame can have
FrameImages == IF video_kind = "frame" THEN SampleImages ELSE { BlackImage }

\* what container.decode may deliver next
NextFrames ==
    IF video_kind = "synthetic"
    THEN IF decoded < VideoEnd
         THEN { [has_pts |-> TRUE, pts |-> decoded * TicksPerFrame] }
         ELSE {}
    ELSE IF decoded < MaxDecoded
         THEN { [has_pts |-> FALSE, pts |-> last_pts] }
              \cup { [has_pts |-> TRUE, pts |-> last_pts + g] : g \in 1 .. MaxPtsGap }
         ELSE {}

\* the RoI hash a yielded frame can have
RoiHashes(n) ==
    IF video_kind = "synthetic" THEN { hashes[PageAt(n) + 1] }
    ELSE IF video_kind \in {"source", "frame"} THEN { 0 }
    ELSE Hashes

\* the outcomes the text corroboration of a yielded frame can have
TextOutcomes == IF video_kind \in {"source", "frame"} THEN { FALSE } ELSE BOOLEAN

\* generator created and not started, SlideTracker constructed, empty map
Constructed ==
    /\ container = "unopened"
    /\ gen = "created"
    /\ error = "none"
    /\ seeks = 0
    /\ decoded = 0
    /\ last_pts = -1
    /\ frame_counter = 0
    /\ yields = 0
    /\ skipped_all = 0
    /\ skipped_pts = 0
    /\ elig_pos = 0
    /\ all_pos = 0
    /\ current_slide_index = -1
    /\ seen_slide_indices = {}
    /\ slide_changes = << >>
    /\ lookup_result = None

\* no keyword oracle call under study
NoOracleCall ==
    /\ ocr_data = << >>
    /\ keywords = {}
    /\ confidence_threshold = DEFAULT_CONFIDENCE_THRESHOLD
    /\ oracle_result = FALSE

\* no RoI locator call under study
NoRoiCall ==
    /\ image = BlackImage
    /\ roi_result = NoResult

\* a video frame as cv2 reads it: what OCR finds on it and its contours
BlankScanFrame == [ocr_data |-> << >>, image |-> BlackImage]

NoFirstSlide == [found |-> FALSE, frame |-> BlankScanFrame, frame_count |-> -1]

NotEnded == [returned |-> FALSE, raised |-> "none", printed |-> ""]

\* find_first_slide and detect_slide_transitions not started
ScanConstructed ==
    /\ max_attempts = 0
    /\ frame_count = 0
    /\ cap = "unopened"
    /\ evaluated = << >>
    /\ first_slide_result = NoFirstSlide
    /\ current_frame_index = 0
    /\ run_result = NotEnded

\* no first-slide scan under study
NoScan ==
    /\ video = << >>
    /\ max_seconds = 0
    /\ fps_halves = 0
    /\ ScanConstructed

NoMerge ==
    /\ srt_content = << >>
    /\ slide_timestamps = << >>
    /\ merge_result = [raised |-> "none", blocks |-> << >>, srt |-> << >>]
    /\ chapter_metadata = << >>

NoBatch ==
    /\ video_pdf_pairs = << >>
    /\ generate_chapters = FALSE
    /\ pair_index = 0
    /\ results_dir = {}
    /\ batch_response = [status |-> "pending", files |-> {}]

NoServer ==
    /\ requests = << >>
    /\ media_folder = {}

\* no subtitle, batch or server operation under study
NoService ==
    /\ NoMerge
    /\ NoBatch
    /\ NoServer

\* no single operation under study
Idle ==
    /\ pc = "idle"
    /\ NoOracleCall
    /\ NoRoiCall
    /\ NoScan
    /\ NoService

Init ==
    /\ video_kind \in {"any", "synthetic"}
    /\ hashes \in Decks
    /\ seg_len \in (IF video_kind = "synthetic"
                    THEN [1 .. Len(hashes) -> 1 .. MaxSegment] ELSE { <<>> })
    /\ metadata \in (IF video_kind = "synthetic" THEN {"ok"} ELSE Metadata)
    /\ frames_step \in 1 .. MaxStep
    /\ start_frame_number \in 0 .. MaxStart
    /\ roi_coordinates = FrozenRoi
    /\ max_hamming_distance \in 1 .. MaxThreshold
    /\ frame = NoFrame
    /\ Constructed
    /\ Idle

\* bookkeeping of one decoded frame f that is not yielded
Discard(f) ==
    LET eligible == f.has_pts /\ current_frame_number(f.pts) >= start_frame_number
    IN  /\ decoded' = decoded + 1
        /\ last_pts' = f.pts
        /\ elig_pos' = IF ~f.has_pts THEN elig_pos
                       ELSE IF elig_pos > 0 \/ eligible THEN elig_pos + 1 ELSE 0
        /\ all_pos' = IF all_pos > 0 \/ eligible THEN all_pos + 1 ELSE 0
        /\ skipped_all' = IF yields > 0 THEN skipped_all + 1 ELSE 0
        /\ skipped_pts' = IF yields > 0 /\ f.has_pts THEN skipped_pts + 1 ELSE skipped_pts
        /\ UNCHANGED <<container, gen, error, seeks, frame, yields>>

\* variant: missing stream metadata goes unnoticed, the generator seeks
RaiseMissingMetadata_ignored ==
    /\ gen = "created"
    /\ metadata # "ok"
    /\ container' = "open"
    /\ gen' = "running"
    /\ seeks' = seeks + 1
    /\ UNCHANGED <<error, decoded, last_pts, frame_counter, frame, yields, skipped_all,
                   skipped_pts, elig_pos, all_pos>>
    /\ UNCHANGED <<input_vars, tracker_vars, unit_vars>>

\* first next(): open the container, fail on missing stream metadata
RaiseMissingMetadata ==
    /\ gen = "created"
    /\ metadata # "ok"
    /\ container' = with_exit("open")
    /\ gen' = "done"
    /\ error' = "ValueError"
    /\ UNCHANGED <<seeks, decoded, last_pts, frame_counter, frame, yields, skipped_all,
                   skipped_pts, elig_pos, all_pos>>
    /\ UNCHANGED <<input_vars, tracker_vars, unit_vars>>

\* first next(): open the container, seek, frame_counter = 0
OpenAndSeek ==
    /\ gen = "created"
    /\ metadata = "ok"
    /\ container' = "open"
    /\ gen' = "running"
    /\ seeks' = seeks + 1
    /\ frame_counter' = 0
    /\ UNCHANGED <<error, decoded, last_pts, frame, yields, skipped_all,
                   skipped_pts, elig_pos, all_pos>>
    /\ UNCHANGED <<input_vars, tracker_vars, unit_vars>>

\* variant: a frame without pts advances frame_counter
DecodeNoPts_counted ==
    /\ gen = "running"
    /\ \E f \in NextFrames :
        /\ ~f.has_pts
        /\ Discard(f)
        /\ frame_counter' = frame_counter + 1
    /\ UNCHANGED <<input_vars, tracker_vars, unit_vars>>

\* if decoded_frame.pts is None: continue
DecodeNoPts ==
    /\ gen = "running"
    /\ \E f \in NextFrames :
        /\ ~f.has_pts
        /\ Discard(f)
        /\ UNCHANGED frame_counter
    /\ UNCHANGED <<input_vars, tracker_vars, unit_vars>>

\* variant: a skipped frame does not advance frame_counter
DecodeStepSkip_stuck ==
    /\ gen = "running"
    /\ \E f \in NextFrames :
        /\ f.has_pts
        /\ frame_counter % frames_step # 0
        /\ Discard(f)
        /\ UNCHANGED frame_counter
    /\ UNCHANGED <<input_vars, tracker_vars, unit_vars>>

\* if frame_counter % frames_step != 0: frame_counter += 1; continue
DecodeStepSkip ==
    /\ gen = "running"
    /\ \E f \in NextFrames :
        /\ f.has_pts
        /\ frame_counter % frames_step # 0
        /\ Discard(f)
        /\ frame_counter' = frame_counter + 1
    /\ UNCHANGED <<input_vars, tracker_vars, unit_vars>>

\* if current_frame_number < start_frame_number: continue
DecodeBelowStart ==
    /\ gen = "running"
    /\ \E f \in NextFrames :
        /\ f.has_pts
        /\ frame_counter % frames_step = 0
        /\ current_frame_number(f.pts) < start_frame_number
        /\ Discard(f)
        /\ UNCHANGED frame_counter
    /\ UNCHANGED <<input_vars, tracker_vars, unit_vars>>

\* frame_counter += 1; yield VideoFrame(...)
DecodeYield ==
    /\ gen = "running"
    /\ \E f \in NextFrames :
        /\ f.has_pts
        /\ frame_counter % frames_step = 0
        /\ current_frame_number(f.pts) >= start_frame_number
        /\ frame_counter' = frame_counter + 1
        /\ decoded' = decoded + 1
        /\ last_pts' = f.pts
        /\ elig_pos' = elig_pos + 1
        /\ all_pos' = all_pos + 1
        /\ yields' = yields + 1
        /\ \E h \in RoiHashes(current_frame_number(f.pts)), t \in TextOutcomes,
              img \in FrameImages :
            frame' = [frame_number |-> current_frame_number(f.pts), pts |-> f.pts,
                      roi_hash |-> h, text_similar |-> t,
                      roi_coordinates |-> roi_coordinates, image |-> img,
                      cached |-> {}, compute_calls |-> 0]
        /\ gen' = "yielded"
        /\ UNCHANGED <<container, error, seeks, skipped_all, skipped_pts>>
    /\ UNCHANGED <<input_vars, tracker_vars, unit_vars>>

\* container.decode is exhausted: the loop and the with block end
EndOfStream ==
    /\ gen = "running"
    /\ video_kind = "synthetic" => decoded = VideoEnd
    /\ gen' = "done"
    /\ container' = with_exit(container)
    /\ UNCHANGED <<error, seeks, decoded, last_pts, frame_counter, frame, yields, skipped_all,
                   skipped_pts, elig_pos, all_pos>>
    /\ UNCHANGED <<input_vars, tracker_vars, unit_vars>>

\* an exception of container.decode or to_ndarray leaves the with block
DecodeError ==
    /\ gen = "running"
    /\ video_kind # "synthetic"
    /\ decoded < MaxDecoded
    /\ gen' = "done"
    /\ error' = "DecodeError"
    /\ container' = with_exit(container)
    /\ UNCHANGED <<seeks, decoded, last_pts, frame_counter, frame, yields, skipped_all,
                   skipped_pts, elig_pos, all_pos>>
    /\ UNCHANGED <<input_vars, tracker_vars, unit_vars>>

\* the consumer stops iterating: the generator is closed at its yield
\* (GeneratorExit leaves the with block); a generator that never ran just ends
StopEarly ==
    /\ gen \in {"created", "yielded"}
    /\ video_kind # "synthetic"
    /\ gen' = "done"
    /\ container' = IF gen = "yielded" THEN with_exit(container) ELSE container
    /\ error' = IF gen = "yielded" THEN "GeneratorExit" ELSE error
    /\ UNCHANGED <<seeks, decoded, last_pts, frame_counter, frame, yields, skipped_all,
                   skipped_pts, elig_pos, all_pos>>
    /\ UNCHANGED <<input_vars, tracker_vars, unit_vars>>

\* ------------------------------------------------------- detection loop
\* hash distance below which a match is confirmed without text corroboration
DEFINITE_MATCH_DISTANCE == 2

\* tracker.find_most_similar_slide_index(video_frame)
Match(video_frame) == find_most_similar_slide_index(video_frame.roi_hash, max_hamming_distance)

\* Slide Tracker decision for one sampled frame
ConfirmsTransition(video_frame) ==
    LET match == Match(video_frame)
    IN  /\ match # None
        /\ ~has_seen_slide(match[1])
        /\ (match[2] < DEFINITE_MATCH_DISTANCE \/ video_frame.text_similar)

\* loop body of the Transition Detector, then the next frame is requested
ProcessFrame ==
    /\ gen = "yielded"
    /\ LET match == Match(frame)
       IN  IF ConfirmsTransition(frame)
           THEN /\ mark_slide_as_seen(match[1])
                /\ slide_changes' = Append(slide_changes,
                       [slide_index |-> match[1], frame_number |-> frame.frame_number])
           ELSE UNCHANGED <<current_slide_index, seen_slide_indices, slide_changes>>
    /\ UNCHANGED lookup_result
    /\ gen' = "running"
    /\ skipped_all' = 0
    /\ skipped_pts' = 0
    /\ UNCHANGED <<container, error, seeks, decoded, last_pts, frame_counter, frame, yields,
                   elig_pos, all_pos>>
    /\ UNCHANGED <<input_vars, unit_vars>>

Next ==
    \/ RaiseMissingMetadata
    \/ OpenAndSeek
    \/ DecodeNoPts
    \/ DecodeStepSkip
    \/ DecodeBelowStart
    \/ DecodeYield
    \/ EndOfStream
    \/ DecodeError
    \/ StopEarly
    \/ ProcessFrame

Spec == Init /\ [][Next]_vars

\* the Frame Source alone: any video, a consumer that only iterates
InitSource ==
    /\ video_kind = "source"
    /\ hashes = << >>
    /\ seg_len = << >>
    /\ metadata \in Metadata
    /\ frames_step \in 1 .. MaxStep
    /\ start_frame_number \in 0 .. MaxStart
    /\ roi_coordinates = None
    /\ max_hamming_distance = 1
    /\ frame = NoFrame
    /\ Constructed
    /\ Idle

SpecSource == InitSource /\ [][Next]_vars

\* the pipeline is synchronous: generator and consumer keep running until the
\* generator is done
LiveSource == SpecSource /\ WF_vars(Next)

\* the Frame Source with a consumer that reads roi_frame and roi_hash of the
\* frames it is given
InitFrame ==
    /\ video_kind = "frame"
    /\ hashes = << >>
    /\ seg_len = << >>
    /\ metadata \in Metadata
    /\ frames_step \in 1 .. MaxStep
    /\ start_frame_number \in 0 .. MaxStart
    /\ roi_coordinates \in {None, FrozenRoi}
    /\ max_hamming_distance = 1
    /\ frame = NoFrame
    /\ Constructed
    /\ Idle

\* video_frame.roi_frame
AccessRoiFrame ==
    /\ video_kind = "frame"
    /\ gen = "yielded"
    /\ frame.compute_calls < MaxAccesses
    /\ frame' = cached_roi_frame(frame)
    /\ UNCHANGED <<container, gen, error, seeks, decoded, last_pts, frame_counter, yields,
                   skipped_all, skipped_pts, elig_pos, all_pos>>
    /\ UNCHANGED <<input_vars, tracker_vars, unit_vars>>

\* video_frame.roi_hash
AccessRoiHash ==
    /\ video_kind = "frame"
    /\ gen = "yielded"
    /\ frame.compute_calls < MaxAccesses
    /\ frame' = cached_roi_hash(frame)
    /\ UNCHANGED <<container, gen, error, seeks, decoded, last_pts, frame_counter, yields,
                   skipped_all, skipped_pts, elig_pos, all_pos>>
    /\ UNCHANGED <<input_vars, tracker_vars, unit_vars>>

NextFrame ==
    \/ Next
    \/ AccessRoiFrame
    \/ AccessRoiHash

SpecFrame == InitFrame /\ [][NextFrame]_vars

\* ------------------------------------------------------------ hash lookup
RECURSIVE SeqsUpTo(_, _)
SeqsUpTo(S, n) ==
    IF n = 0 THEN { << >> }
    ELSE LET shorter == SeqsUpTo(S, n - 1)
         IN  shorter \cup { Append(q, x) : q \in { r \in shorter : Len(r) = n - 1 }, x \in S }

\* one call of find_most_similar_slide_index on any deck, hash and threshold
InitLookup ==
    /\ video_kind = "lookup"
    /\ hashes \in SeqsUpTo(Hashes, MaxPages)
    /\ seg_len = << >>
    /\ metadata = "ok"
    /\ frames_step = 1
    /\ start_frame_number = 0
    /\ roi_coordinates = None
    /\ max_hamming_distance \in 0 .. HashBits
    /\ frame \in { [NoFrame EXCEPT !.roi_hash = h] : h \in Hashes }
    /\ Constructed
    /\ Idle

Lookup ==
    /\ video_kind = "lookup"
    /\ gen = "created"
    /\ lookup_result' = Match(frame)
    /\ gen' = "done"
    /\ UNCHANGED <<container, error, seeks, decoded, last_pts, frame_counter, frame, yields,
                   skipped_all, skipped_pts, elig_pos, all_pos>>
    /\ UNCHANGED <<current_slide_index, seen_slide_indices, slide_changes>>
    /\ UNCHANGED <<input_vars, unit_vars>>

NextLookup == Lookup

SpecLookup == InitLookup /\ [][NextLookup]_vars

\* ---------------------------------------------------------- oracle call
\* OCR words: empty, padded, lower case, a keyword inside a longer token,
\* a keyword as the prefix of a longer word, a token ending in "#"
Texts == { << >>, <<" ", "F", "H">>, <<"f", "h">>, <<"F", "H", "#", "c">>,
           <<"F", "H", "C">>, <<"C", "#">> }

Confidences == { 50, 80, 96 }

Thresholds == { 0, 80, 90 }

\* keywords are the blank-separated, upper-cased tokens the caller was given
KeywordUniverse == { <<"F", "H">>, <<"C", "#">> }

OcrTables == SeqsUpTo([text : Texts, conf : Confidences], MaxWords)

\* state of the model outside the operation under study
Unused ==
    /\ seg_len = << >>
    /\ metadata = "ok"
    /\ frames_step = 1
    /\ start_frame_number = 0
    /\ roi_coordinates = None
    /\ hashes = << >>
    /\ max_hamming_distance = 1
    /\ frame = NoFrame
    /\ Constructed

\* one call of are_all_keywords_present on any OCR table, keywords, threshold
InitOracle ==
    /\ video_kind = "oracle"
    /\ Unused
    /\ pc = "call"
    /\ ocr_data \in OcrTables
    /\ keywords \in SUBSET KeywordUniverse
    /\ confidence_threshold \in Thresholds
    /\ oracle_result = FALSE
    /\ NoRoiCall
    /\ NoScan
    /\ NoService

AreAllKeywordsPresent ==
    /\ video_kind = "oracle"
    /\ pc = "call"
    /\ oracle_result' = are_all_keywords_present(ocr_data, keywords, confidence_threshold)
    /\ pc' = "return"
    /\ UNCHANGED <<ocr_data, keywords, confidence_threshold, roi_vars, scan_vars>>
    /\ UNCHANGED <<input_vars, source_vars, tracker_vars, service_vars>>

NextOracle == AreAllKeywordsPresent

SpecOracle == InitOracle /\ [][NextOracle]_vars

\* --------------------------------------------------------- RoI locator call
\* bounding rectangles around the size gates, inside the padded image
Contours == [x : {0, 7}, y : {5}, w : {10, 499, 500, 600}, h : {499, 500},
             area : {0, 1000}]

Images == { [width |-> 600, height |-> 600, contours |-> c] :
                c \in SeqsUpTo(Contours, MaxContours) }

\* one call of compute_roi_coordinates on any image
InitRoi ==
    /\ video_kind = "roi"
    /\ Unused
    /\ NoOracleCall
    /\ pc = "call"
    /\ image \in Images
    /\ roi_result = NoResult
    /\ NoScan
    /\ NoService

ComputeRoiCoordinates ==
    /\ video_kind = "roi"
    /\ pc = "call"
    /\ roi_result' = compute_roi_coordinates(image)
    /\ pc' = "return"
    /\ UNCHANGED <<image, oracle_vars, scan_vars>>
    /\ UNCHANGED <<input_vars, source_vars, tracker_vars, service_vars>>

NextRoi == ComputeRoiCoordinates

SpecRoi == InitRoi /\ [][NextRoi]_vars

\* ------------------------------------------------------- first-slide scan
\* keywords_to_be_matched of find_first_slide, shortened to one keyword
ScanKeywords == { <<"F", "H">> }

SlideImage ==
    [BlackImage EXCEPT !.contours = << [x |-> 7, y |-> 5, w |-> 600, h |-> 500, area |-> 1000] >>]

SmallBoxImage ==
    [BlackImage EXCEPT !.contours = << [x |-> 0, y |-> 5, w |-> 10, h |-> 499, area |-> 0] >>]

\* a black frame, a title slide, a title slide too small for a RoI, a title
\* slide OCR is not sure about
ScanFrames ==
    { BlankScanFrame,
      [ocr_data |-> << [text |-> <<"F", "H">>, conf |-> 96] >>, image |-> SlideImage],
      [ocr_data |-> << [text |-> <<"f", "h">>, conf |-> 80] >>, image |-> SmallBoxImage],
      [ocr_data |-> << [text |-> <<"F", "H">>, conf |-> 50] >>, image |-> SlideImage] }

\* are_all_keywords_present(frame, keywords_to_be_matched)
FirstSlideOracle(f) ==
    are_all_keywords_present(f.ocr_data, ScanKeywords, DEFAULT_CONFIDENCE_THRESHOLD)

\* extract_slide_roi_coordinates_from_image: the rectangle, None without one
extract_slide_roi_coordinates_from_image(img) == compute_roi_coordinates(img).value

\* detect_slide_transitions(video_file_path) on any video
InitScan ==
    /\ video_kind = "scan"
    /\ Unused
    /\ NoOracleCall
    /\ NoRoiCall
    /\ pc = "start"
    /\ video \in SeqsUpTo(ScanFrames, MaxVideo)
    /\ max_seconds \in 0 .. MaxSeconds
    /\ fps_halves \in 0 .. MaxFpsHalves
    /\ ScanConstructed
    /\ NoService

\* cap = cv2.VideoCapture(video_path); max_attempts = int(max_seconds * fps)
OpenCapture ==
    /\ pc = "start"
    /\ cap' = "open"
    /\ max_attempts' = (max_seconds * fps_halves) \div 2
    /\ frame_count' = 0
    /\ pc' = "scan"
    /\ UNCHANGED <<video, max_seconds, fps_halves, evaluated, first_slide_result,
                   current_frame_index, run_result>>
    /\ UNCHANGED <<input_vars, source_vars, tracker_vars, service_vars,
                 oracle_vars, roi_vars>>

\* cap.read() fails: break, cap.release(), return None
ReadFails ==
    /\ pc = "scan"
    /\ frame_count < max_attempts
    /\ frame_count >= Len(video)
    /\ cap' = "released"
    /\ first_slide_result' = NoFirstSlide
    /\ pc' = "no_first_slide"
    /\ UNCHANGED <<video, max_seconds, fps_halves, max_attempts, frame_count, evaluated,
                   current_frame_index, run_result>>
    /\ UNCHANGED <<input_vars, source_vars, tracker_vars, service_vars,
                 oracle_vars, roi_vars>>

\* variant: the scan goes on past max_attempts
ReadRejected_uncapped ==
    /\ pc = "scan"
    /\ frame_count < Len(video)
    /\ ~FirstSlideOracle(video[frame_count + 1])
    /\ evaluated' = Append(evaluated, frame_count)
    /\ frame_count' = frame_count + 1
    /\ UNCHANGED <<video, max_seconds, fps_halves, max_attempts, cap, first_slide_result,
                   current_frame_index, run_result>>
    /\ UNCHANGED <<pc, input_vars, source_vars, tracker_vars, service_vars,
                 oracle_vars, roi_vars>>

\* cap.read() delivers a frame the oracle rejects: next frame_count
ReadRejected ==
    /\ pc = "scan"
    /\ frame_count < max_attempts
    /\ frame_count < Len(video)
    /\ ~FirstSlideOracle(video[frame_count + 1])
    /\ evaluated' = Append(evaluated, frame_count)
    /\ frame_count' = frame_count + 1
    /\ UNCHANGED <<video, max_seconds, fps_halves, max_attempts, cap, first_slide_result,
                   current_frame_index, run_result>>
    /\ UNCHANGED <<pc, input_vars, source_vars, tracker_vars, service_vars,
                 oracle_vars, roi_vars>>

\* variant: the count returned is that of the next frame
ReadAccepted_next_count ==
    /\ pc = "scan"
    /\ frame_count < max_attempts
    /\ frame_count < Len(video)
    /\ FirstSlideOracle(video[frame_count + 1])
    /\ evaluated' = Append(evaluated, frame_count)
    /\ cap' = "released"
    /\ first_slide_result' = [found |-> TRUE, frame |-> video[frame_count + 1],
                               frame_count |-> frame_count + 1]
    /\ pc' = "found"
    /\ UNCHANGED <<video, max_seconds, fps_halves, max_attempts, frame_count,
                   current_frame_index, run_result>>
    /\ UNCHANGED <<input_vars, source_vars, tracker_vars, service_vars,
                 oracle_vars, roi_vars>>

\* cap.read() delivers a frame the oracle accepts: cap.release(), return it
ReadAccepted ==
    /\ pc = "scan"
    /\ frame_count < max_attempts
    /\ frame_count < Len(video)
    /\ FirstSlideOracle(video[frame_count + 1])
    /\ evaluated' = Append(evaluated, frame_count)
    /\ cap' = "released"
    /\ first_slide_result' = [found |-> TRUE, frame |-> video[frame_count + 1],
                               frame_count |-> frame_count]
    /\ pc' = "found"
    /\ UNCHANGED <<video, max_seconds, fps_halves, max_attempts, frame_count,
                   current_frame_index, run_result>>
    /\ UNCHANGED <<input_vars, source_vars, tracker_vars, service_vars,
                 oracle_vars, roi_vars>>

\* range(max_attempts) is exhausted: cap.release(), return None
AttemptsExhausted ==
    /\ pc = "scan"
    /\ frame_count >= max_attempts
    /\ cap' = "released"
    /\ first_slide_result' = NoFirstSlide
    /\ pc' = "no_first_slide"
    /\ UNCHANGED <<video, max_seconds, fps_halves, max_attempts, frame_count, evaluated,
                   current_frame_index, run_result>>
    /\ UNCHANGED <<input_vars, source_vars, tracker_vars, service_vars,
                 oracle_vars, roi_vars>>

\* if first_slide_result is None: print(...); return
ReportNoFirstSlide ==
    /\ pc = "no_first_slide"
    /\ run_result' = [returned |-> TRUE, raised |-> "none",
                       printed |-> "Error: No slide was found in the video."]
    /\ pc' = "returned"
    /\ UNCHANGED <<video, max_seconds, fps_halves, max_attempts, frame_count, cap, evaluated,
                   first_slide_result, current_frame_index>>
    /\ UNCHANGED <<input_vars, source_vars, tracker_vars, service_vars,
                 oracle_vars, roi_vars>>

\* roi_coordinates = extract_slide_roi_coordinates_from_image(first_slide_frame);
\* without one print(...) and return, else open the video again
LocateRoi ==
    /\ pc = "found"
    /\ LET roi == extract_slide_roi_coordinates_from_image(first_slide_result.frame.image)
       IN  /\ roi_result' = [raised |-> "none", value |-> roi]
           /\ IF roi = None
              THEN /\ run_result' = [returned |-> TRUE, raised |-> "none",
                          printed |-> "Error: Unable to extract ROI coordinates from the first slide."]
                   /\ pc' = "returned"
                   /\ UNCHANGED <<cap, current_frame_index>>
              ELSE /\ cap' = "open"
                   /\ current_frame_index' = 2 * first_slide_result.frame_count
                   /\ pc' = "loop"
                   /\ UNCHANGED run_result
    /\ UNCHANGED <<video, max_seconds, fps_halves, max_attempts, frame_count, evaluated,
                   first_slide_result>>
    /\ UNCHANGED <<input_vars, source_vars, tracker_vars, service_vars,
                 oracle_vars, image>>

\* cap.set(cv2.CAP_PROP_POS_FRAMES, current_frame_index); cap.read() succeeds:
\* current_frame_index += fps
LoopRead ==
    /\ pc = "loop"
    /\ current_frame_index \div 2 < Len(video)
    /\ current_frame_index' = current_frame_index + fps_halves
    /\ UNCHANGED <<video, max_seconds, fps_halves, max_attempts, frame_count, cap, evaluated,
                   first_slide_result, run_result>>
    /\ UNCHANGED <<pc, input_vars, source_vars, tracker_vars, service_vars,
                 oracle_vars, roi_vars>>

\* cap.read() fails: break, cap.release(), the function ends
LoopEnds ==
    /\ pc = "loop"
    /\ current_frame_index \div 2 >= Len(video)
    /\ cap' = "released"
    /\ run_result' = [returned |-> TRUE, raised |-> "none", printed |-> ""]
    /\ pc' = "returned"
    /\ UNCHANGED <<video, max_seconds, fps_halves, max_attempts, frame_count, evaluated,
                   first_slide_result, current_frame_index>>
    /\ UNCHANGED <<input_vars, source_vars, tracker_vars, service_vars,
                 oracle_vars, roi_vars>>

NextScan ==
    \/ OpenCapture
    \/ ReadFails
    \/ ReadRejected
    \/ ReadAccepted
    \/ AttemptsExhausted
    \/ ReportNoFirstSlide
    \/ LocateRoi
    \/ LoopRead
    \/ LoopEnds

SpecScan == InitScan /\ [][NextScan]_vars

\* the function runs to its end once called
LiveScan == SpecScan /\ WF_vars(NextScan)

\* --------------------------------------------------------- subtitle merge
\* time is counted in ticks; an SRT timestamp is a whole number of milliseconds
TicksPerMs == 2

LAST_CHAPTER_MS == 1000

\* "HH:MM:SS,mmm" of a time in seconds: td.microseconds // 1000 drops the rest
seconds_to_srt_time(seconds) == seconds \div TicksPerMs

\* the time in seconds of "HH:MM:SS,mmm"
srt_time_to_seconds(srt_timestamp) == srt_timestamp * TicksPerMs

\* list.sort / sorted on <<key, item>> pairs: ascending keys, equal keys keep their order
RECURSIVE stable_sort(_)
stable_sort(pairs) ==
    IF pairs = << >> THEN << >>
    ELSE LET front == stable_sort(SubSeq(pairs, 1, Len(pairs) - 1))
             last == pairs[Len(pairs)]
             not_after(q) == q[1] <= last[1]
             after(q) == q[1] > last[1]
         IN  SelectSeq(front, not_after) \o << last >> \o SelectSeq(front, after)

\* entries of the SRT text with their times in seconds, sorted by start
parse_srt_string(content) ==
    LET keyed == [ i \in 1 .. Len(content) |->
                     << srt_time_to_seconds(content[i].start),
                        [index |-> content[i].index,
                         start |-> srt_time_to_seconds(content[i].start),
                         end |-> srt_time_to_seconds(content[i].end),
                         text |-> content[i].text] >> ]
        entries == stable_sort(keyed)
    IN  [ i \in 1 .. Len(entries) |-> entries[i][2] ]

\* sorted(slide_timestamps.items(), key=lambda item: item[1])
sorted_slide_entries(timestamps) ==
    LET keyed == [ i \in 1 .. Len(timestamps) |-> << timestamps[i][2], timestamps[i] >> ]
        entries == stable_sort(keyed)
    IN  [ i \in 1 .. Len(entries) |-> entries[i][2] ]

\* max(entry["end"] for entry in srt_entries), of a non-empty list
max_end(srt_entries) ==
    CHOOSE m \in { srt_entries[i].end : i \in 1 .. Len(srt_entries) } :
        \A i \in 1 .. Len(srt_entries) : srt_entries[i].end <= m

\* the texts of the entries that start in [start_time, end_time), in order
block_texts(srt_entries, start_time, end_time) ==
    LET in_range(e) == start_time <= e.start /\ e.start < end_time
        chosen == SelectSeq(srt_entries, in_range)
    IN  [ i \in 1 .. Len(chosen) |-> chosen[i].text ]

\* the loop over the sorted slide entries from position i on
RECURSIVE merged_blocks_from(_, _, _, _)
merged_blocks_from(srt_entries, slides, video_end_time, i) ==
    IF i > Len(slides) THEN << >>
    ELSE LET start_time == slides[i][2]
             end_time == IF i + 1 <= Len(slides) THEN slides[i + 1][2] ELSE video_end_time
             rest == merged_blocks_from(srt_entries, slides, video_end_time, i + 1)
         IN  IF end_time <= start_time THEN rest
             ELSE << [index |-> i, start |-> start_time, end |-> end_time,
                      text |-> block_texts(srt_entries, start_time, end_time)] >> \o rest

\* the merged SRT text: per block its number, its formatted time range, its text
merged_srt_lines(blocks) ==
    [ k \in 1 .. Len(blocks) |->
        [index |-> blocks[k].index,
         start |-> seconds_to_srt_time(blocks[k].start),
         end |-> seconds_to_srt_time(blocks[k].end),
         text |-> blocks[k].text] ]

\* variant: every block ends at the end of the transcript
merge_srt_by_slide_ranges_to_end(content, timestamps) ==
    LET srt_entries == parse_srt_string(content)
        slides == sorted_slide_entries(timestamps)
    IN  IF srt_entries = << >>
        THEN [raised |-> "ValueError", blocks |-> << >>, srt |-> << >>]
        ELSE LET video_end_time == max_end(srt_entries)
                 kept == { i \in 1 .. Len(slides) : video_end_time > slides[i][2] }
                 merged_blocks ==
                     [ k \in 1 .. Cardinality(kept) |->
                         LET i == CHOOSE j \in kept : Cardinality({ l \in kept : l <= j }) = k
                         IN  [index |-> i, start |-> slides[i][2], end |-> video_end_time,
                              text |-> block_texts(srt_entries, slides[i][2], video_end_time)] ]
             IN  [raised |-> "none", blocks |-> merged_blocks, srt |-> merged_srt_lines(merged_blocks)]

merge_srt_by_slide_ranges(content, timestamps) ==
    LET srt_entries == parse_srt_string(content)
        slides == sorted_slide_entries(timestamps)
    IN  IF srt_entries = << >>
        THEN [raised |-> "ValueError", blocks |-> << >>, srt |-> << >>]
        ELSE LET video_end_time == max_end(srt_entries)
                 merged_blocks == merged_blocks_from(srt_entries, slides, video_end_time, 1)
             IN  [raised |-> "none", blocks |-> merged_blocks, srt |-> merged_srt_lines(merged_blocks)]

\* start and end of a transcript entry, in milliseconds
Spans == { sp \in (0 .. MaxMs) \X (0 .. MaxMs) : sp[1] <= sp[2] }

\* transcripts of up to MaxEntries entries, in any file order; the text of an
\* entry is identified with its number
SrtContents ==
    UNION { { [ i \in 1 .. n |-> [index |-> i, start |-> f[i][1], end |-> f[i][2], text |-> i] ] :
                f \in [ 1 .. n -> Spans ] } : n \in 0 .. MaxEntries }

\* timestamps of slide changes, with a resolution finer than a millisecond
SlideTimes == 0 .. (MaxMs * TicksPerMs)

\* slide-timestamp maps whose keys are numbered in insertion order
OrderedSlideMaps ==
    UNION { { [ i \in 1 .. n |-> << i - 1, f[i] >> ] : f \in [ 1 .. n -> SlideTimes ] } :
              n \in 0 .. MaxSlides }

\* one call of merge_srt_by_slide_ranges on any transcript and slide map
InitMerge ==
    /\ video_kind = "merge"
    /\ Unused
    /\ NoOracleCall
    /\ NoRoiCall
    /\ NoScan
    /\ pc = "call"
    /\ srt_content \in SrtContents
    /\ slide_timestamps \in OrderedSlideMaps
    /\ merge_result = [raised |-> "none", blocks |-> << >>, srt |-> << >>]
    /\ chapter_metadata = << >>
    /\ NoBatch
    /\ NoServer

MergeSrtBySlideRanges ==
    /\ video_kind = "merge"
    /\ pc = "call"
    /\ merge_result' = merge_srt_by_slide_ranges(srt_content, slide_timestamps)
    /\ pc' = "return"
    /\ UNCHANGED <<srt_content, slide_timestamps, chapter_metadata, batch_vars, server_vars>>
    /\ UNCHANGED <<input_vars, source_vars, tracker_vars, oracle_vars, roi_vars, scan_vars>>

NextMerge == MergeSrtBySlideRanges

SpecMerge == InitMerge /\ [][NextMerge]_vars

\* ------------------------------------------------------- chapter metadata
\* sorted((timestamp, idx) for idx, timestamp in slide_changes.items())
sorted_chapters(changes) ==
    LET by_index == stable_sort([ i \in 1 .. Len(changes) |-> << changes[i][1], changes[i] >> ])
        by_time == stable_sort([ i \in 1 .. Len(by_index) |->
                                   << by_index[i][2][2], by_index[i][2] >> ])
    IN  [ i \in 1 .. Len(by_time) |-> << by_time[i][2][2], by_time[i][2][1] >> ]

\* int(timestamp * 1000)
int_ms(timestamp) == timestamp \div TicksPerMs

\* one [CHAPTER] per sorted entry; "if next_timestamp" is false for None and for 0.0
generate_ffmpeg_metadata(changes) ==
    LET chapters == sorted_chapters(changes)
    IN  [ i \in 1 .. Len(chapters) |->
            LET timestamp == chapters[i][1]
                next_timestamp == IF i < Len(chapters) THEN chapters[i + 1][1] ELSE 0
            IN  [START |-> int_ms(timestamp),
                 END |-> IF i < Len(chapters) /\ next_timestamp # 0
                         THEN int_ms(next_timestamp)
                         ELSE int_ms(timestamp) + LAST_CHAPTER_MS,
                 title |-> chapters[i][2]] ]

\* injective sequences of slide indices
SlideOrders(n) ==
    { o \in [ 1 .. n -> 0 .. (MaxSlides - 1) ] : \A i, j \in 1 .. n : i # j => o[i] # o[j] }

\* slide-timestamp maps: distinct slide indices in any insertion order
SlideMaps ==
    UNION { { [ i \in 1 .. n |-> << o[i], f[i] >> ] :
                o \in SlideOrders(n), f \in [ 1 .. n -> SlideTimes ] } : n \in 0 .. MaxSlides }

\* one call of generate_ffmpeg_metadata on any slide map
InitChapters ==
    /\ video_kind = "chapters"
    /\ Unused
    /\ NoOracleCall
    /\ NoRoiCall
    /\ NoScan
    /\ pc = "call"
    /\ srt_content = << >>
    /\ slide_timestamps \in SlideMaps
    /\ merge_result = [raised |-> "none", blocks |-> << >>, srt |-> << >>]
    /\ chapter_metadata = << >>
    /\ NoBatch
    /\ NoServer

GenerateFfmpegMetadata ==
    /\ video_kind = "chapters"
    /\ pc = "call"
    /\ chapter_metadata' = generate_ffmpeg_metadata(slide_timestamps)
    /\ pc' = "return"
    /\ UNCHANGED <<srt_content, slide_timestamps, merge_result, batch_vars, server_vars>>
    /\ UNCHANGED <<input_vars, source_vars, tracker_vars, oracle_vars, roi_vars, scan_vars>>

NextChapters == GenerateFfmpegMetadata

SpecChapters == InitChapters /\ [][NextChapters]_vars

\* ------------------------------------------------------------ batch detect
\* a file system directory is a set of <<path, content>> with one content per
\* path; a path is <<stem, suffix>>; writing a file replaces what the path held
write_file(directory, path, content) ==
    { f \in directory : f[1] # path } \cup { << path, content >> }

\* Path.unlink(missing_ok=True)
unlink(directory, path) == { f \in directory : f[1] # path }

exists(directory, path) == \E f \in directory : f[1] = path

read_file(directory, path) == (CHOOSE f \in directory : f[1] = path)[2]

Stems == { "a", "b" }

\* video_extensions of find_matching_video_pdf_pairs, two of them
VideoExtensions == { ".mp4", ".mov" }

\* how the processing of a pair ends: it succeeds, generate_merged_srt raises,
\* or generate_video_with_chapters raises
PairOutcomes == { "ok", "srt_fails", "chapters_fail" }

Pairs == [stem : Stems, ext : VideoExtensions, outcome : PairOutcomes]

\* find_matching_video_pdf_pairs: every video with a PDF of its stem, once
PairLists ==
    { l \in SeqsUpTo(Pairs, MaxPairs) :
        \A i, j \in 1 .. Len(l) : i # j => << l[i].stem, l[i].ext >> # << l[j].stem, l[j].ext >> }

\* one /batch-detect request on any list of pairs
InitBatch ==
    /\ video_kind = "batch"
    /\ Unused
    /\ NoOracleCall
    /\ NoRoiCall
    /\ NoScan
    /\ NoMerge
    /\ pc = "loop"
    /\ generate_chapters \in BOOLEAN
    /\ video_pdf_pairs \in { l \in PairLists :
                               \A i \in 1 .. Len(l) : l[i].outcome = "chapters_fail" => generate_chapters }
    /\ pair_index = 0
    /\ results_dir = {}
    /\ batch_response = [status |-> "pending", files |-> {}]
    /\ NoServer

\* one pass of the loop without exception: the video is copied to MEDIA_FOLDER,
\* the merged SRT saved in the results directory, the chapter video written
ProcessPair ==
    /\ video_kind = "batch"
    /\ pc = "loop"
    /\ pair_index < Len(video_pdf_pairs)
    /\ LET pair == video_pdf_pairs[pair_index + 1]
           with_srt == write_file(results_dir, << pair.stem, "_merged.srt" >>, pair_index + 1)
       IN  /\ pair.outcome = "ok"
           /\ media_folder' = write_file(media_folder, << pair.stem, pair.ext >>, pair_index + 1)
           /\ results_dir' =
                  IF generate_chapters
                  THEN write_file(with_srt, << pair.stem, "_chapters" >>, pair_index + 1)
                  ELSE with_srt
    /\ pair_index' = pair_index + 1
    /\ UNCHANGED <<pc, video_pdf_pairs, generate_chapters, batch_response, requests, merge_vars>>
    /\ UNCHANGED <<input_vars, source_vars, tracker_vars, oracle_vars, roi_vars, scan_vars>>

\* one pass of the loop with an exception: it is logged and the loop goes on
ProcessPairFails ==
    /\ video_kind = "batch"
    /\ pc = "loop"
    /\ pair_index < Len(video_pdf_pairs)
    /\ LET pair == video_pdf_pairs[pair_index + 1]
       IN  /\ pair.outcome # "ok"
           /\ IF pair.outcome = "chapters_fail"
              THEN /\ media_folder' = write_file(media_folder, << pair.stem, pair.ext >>,
                                                 pair_index + 1)
                   /\ results_dir' = write_file(results_dir, << pair.stem, "_merged.srt" >>,
                                                pair_index + 1)
              ELSE UNCHANGED <<media_folder, results_dir>>
    /\ pair_index' = pair_index + 1
    /\ UNCHANGED <<pc, video_pdf_pairs, generate_chapters, batch_response, requests, merge_vars>>
    /\ UNCHANGED <<input_vars, source_vars, tracker_vars, oracle_vars, roi_vars, scan_vars>>

\* zipping_directory of a results directory with files, and the FileResponse
RespondWithZip ==
    /\ video_kind = "batch"
    /\ pc = "loop"
    /\ pair_index = Len(video_pdf_pairs)
    /\ results_dir # {}
    /\ media_folder' = write_file(media_folder, << "batch_results", ".zip" >>, results_dir)
    /\ batch_response' = [status |-> "200", files |-> results_dir]
    /\ pc' = "return"
    /\ UNCHANGED <<video_pdf_pairs, generate_chapters, pair_index, results_dir, requests, merge_vars>>
    /\ UNCHANGED <<input_vars, source_vars, tracker_vars, oracle_vars, roi_vars, scan_vars>>

\* zipping_directory raises ValueError("No files found in directory"), which
\* the handler turns into HTTPException(status_code=500)
RespondWithError ==
    /\ video_kind = "batch"
    /\ pc = "loop"
    /\ pair_index = Len(video_pdf_pairs)
    /\ results_dir = {}
    /\ batch_response' = [status |-> "500", files |-> {}]
    /\ pc' = "return"
    /\ UNCHANGED <<video_pdf_pairs, generate_chapters, pair_index, results_dir, server_vars,
                   merge_vars>>
    /\ UNCHANGED <<input_vars, source_vars, tracker_vars, oracle_vars, roi_vars, scan_vars>>

NextBatch ==
    \/ ProcessPair
    \/ ProcessPairFails
    \/ RespondWithZip
    \/ RespondWithError

SpecBatch == InitBatch /\ [][NextBatch]_vars

\* ------------------------------------------------------ concurrent requests
\* the endpoints: /detect without and with chapters, /batch-detect
RequestKinds == { "detect", "detect_chapters", "batch_detect" }

\* the stable path of the final artifact of a request
final_path_of(request) ==
    IF request.kind = "detect" THEN << request.stem, "_merged.srt" >>
    ELSE IF request.kind = "detect_chapters" THEN << "results", ".zip" >>
    ELSE << "batch_results", ".zip" >>

NewRequests == [kind : RequestKinds, stem : Stems, state : { "received" }, streamed : { 0 }]

\* MaxRequests requests have arrived; MEDIA_FOLDER holds no file of theirs yet
InitServer ==
    /\ video_kind = "server"
    /\ Unused
    /\ NoOracleCall
    /\ NoRoiCall
    /\ NoScan
    /\ NoMerge
    /\ NoBatch
    /\ pc = "serving"
    /\ requests \in [ 1 .. MaxRequests -> NewRequests ]
    /\ media_folder = {}

\* the handler of request r runs to its return: it stores the video in
\* MEDIA_FOLDER, writes the final artifact to its stable path and returns a
\* FileResponse for that path
Handle(r) ==
    /\ video_kind = "server"
    /\ requests[r].state = "received"
    /\ media_folder' = write_file(write_file(media_folder, << requests[r].stem, ".mp4" >>, r),
                                  final_path_of(requests[r]), r)
    /\ requests' = [requests EXCEPT ![r].state = "returned"]
    /\ UNCHANGED <<pc, merge_vars, batch_vars>>
    /\ UNCHANGED <<input_vars, source_vars, tracker_vars, oracle_vars, roi_vars, scan_vars>>

\* the processing of request r raises after the upload was saved: HTTP 500
HandleFails(r) ==
    /\ video_kind = "server"
    /\ requests[r].state = "received"
    /\ requests[r].kind # "batch_detect"
    /\ media_folder' = write_file(media_folder, << requests[r].stem, ".mp4" >>, r)
    /\ requests' = [requests EXCEPT ![r].state = "failed"]
    /\ UNCHANGED <<pc, merge_vars, batch_vars>>
    /\ UNCHANGED <<input_vars, source_vars, tracker_vars, oracle_vars, roi_vars, scan_vars>>

\* FileResponse streams what the path holds now
SendResponse(r) ==
    /\ video_kind = "server"
    /\ requests[r].state = "returned"
    /\ exists(media_folder, final_path_of(requests[r]))
    /\ requests' = [requests EXCEPT ![r].state = "sent",
                                    ![r].streamed = read_file(media_folder, final_path_of(requests[r]))]
    /\ UNCHANGED <<pc, media_folder, merge_vars, batch_vars>>
    /\ UNCHANGED <<input_vars, source_vars, tracker_vars, oracle_vars, roi_vars, scan_vars>>

\* FileResponse finds no file at the path: RuntimeError, nothing is streamed
SendFails(r) ==
    /\ video_kind = "server"
    /\ requests[r].state = "returned"
    /\ ~ exists(media_folder, final_path_of(requests[r]))
    /\ requests' = [requests EXCEPT ![r].state = "failed"]
    /\ UNCHANGED <<pc, media_folder, merge_vars, batch_vars>>
    /\ UNCHANGED <<input_vars, source_vars, tracker_vars, oracle_vars, roi_vars, scan_vars>>

\* BackgroundTask(final_path.unlink, missing_ok=True) after the response was sent
UnlinkArtifact(r) ==
    /\ video_kind = "server"
    /\ requests[r].state = "sent"
    /\ media_folder' = unlink(media_folder, final_path_of(requests[r]))
    /\ requests' = [requests EXCEPT ![r].state = "done"]
    /\ UNCHANGED <<pc, merge_vars, batch_vars>>
    /\ UNCHANGED <<input_vars, source_vars, tracker_vars, oracle_vars, roi_vars, scan_vars>>

NextServer ==
    \E r \in 1 .. MaxRequests :
        \/ Handle(r)
        \/ HandleFails(r)
        \/ SendResponse(r)
        \/ SendFails(r)
        \/ UnlinkArtifact(r)

SpecServer == InitServer /\ [][NextServer]_vars

\* ------------------------------------------------------------ properties
Distances(h) == { compute_hamming_distance(h, hashes[i]) : i \in 1 .. Len(hashes) }

MinDistance(h) == CHOOSE d \in Distances(h) : \A e \in Distances(h) : d <= e

DistinctHashes == \A i, j \in 1 .. Len(hashes) : i # j => hashes[i] # hashes[j]

\* C1: no page index is confirmed (entered in the Transition Map) more than
\* once within one detection run.
C1_NoPageConfirmedTwice ==
    \A i, j \in 1 .. Len(slide_changes) :
        i # j => slide_changes[i].slide_index # slide_changes[j].slide_index

\* the frame processed last matched the page confirmed first, after a second
\* page had been confirmed
C1_Witness ==
    /\ gen = "running"
    /\ Len(slide_changes) >= 2
    /\ Match(frame) # None
    /\ Match(frame)[1] = slide_changes[1].slide_index

\* C2: the frame numbers stored in the Slide Transition Map are strictly
\* increasing in insertion order.
C2_MapStrictlyIncreasing ==
    \A i \in 1 .. (Len(slide_changes) - 1) :
        slide_changes[i].frame_number < slide_changes[i + 1].frame_number

\* C3: round trip: on a synthetic video that shows the pages of a deck with
\* pairwise distinct hashes in order, every segment at least one stride long,
\* the pages are confirmed in the order 0, 1, ..., N-1, page k at a frame
\* number in [B_k, B_k + stride), and all of them once the video has ended.
C3_RoundTrip ==
    (/\ video_kind = "synthetic"
     /\ DistinctHashes
     /\ \A k \in 1 .. Len(seg_len) : seg_len[k] >= frames_step)
    =>
    /\ \A i \in 1 .. Len(slide_changes) :
        /\ slide_changes[i].slide_index = i - 1
        /\ Boundary(i - 1) <= slide_changes[i].frame_number
        /\ slide_changes[i].frame_number < Boundary(i - 1) + frames_step
    /\ gen = "done" => Len(slide_changes) = Len(hashes)

\* a finished run over three pages, one of them confirmed after its boundary
C3_Witness ==
    /\ video_kind = "synthetic"
    /\ DistinctHashes
    /\ \A k \in 1 .. Len(seg_len) : seg_len[k] >= frames_step
    /\ gen = "done"
    /\ Len(hashes) = 3
    /\ Len(slide_changes) = 3
    /\ \E i \in 2 .. 3 : slide_changes[i].frame_number > Boundary(i - 1)

\* C4: find_most_similar_slide_index returns None exactly when the deck is
\* empty or the minimum Hamming distance exceeds the threshold (a distance
\* equal to the threshold matches); otherwise it returns the lowest index
\* attaining the minimum with that distance; a higher threshold keeps a match.
C4_Nearest ==
    gen = "done" =>
        LET h == frame.roi_hash
            r == lookup_result
        IN  /\ (r = None) <=> (Len(hashes) = 0 \/ MinDistance(h) > max_hamming_distance)
            /\ r # None =>
                /\ r[2] = MinDistance(h)
                /\ compute_hamming_distance(h, hashes[r[1] + 1]) = MinDistance(h)
                /\ \A i \in 1 .. r[1] :
                       compute_hamming_distance(h, hashes[i]) > MinDistance(h)
                /\ \A t2 \in max_hamming_distance .. HashBits :
                       find_most_similar_slide_index(h, t2) # None

\* a hash tied between the first two pages at a distance equal to the
\* threshold, a third page being farther away: the lookup returned page 0
C4_Witness ==
    /\ gen = "done"
    /\ Len(hashes) = 3
    /\ max_hamming_distance > 0
    /\ compute_hamming_distance(frame.roi_hash, hashes[1]) = max_hamming_distance
    /\ compute_hamming_distance(frame.roi_hash, hashes[2]) = max_hamming_distance
    /\ compute_hamming_distance(frame.roi_hash, hashes[3]) > max_hamming_distance
    /\ lookup_result = <<0, max_hamming_distance>>

\* C5: a sampled frame whose nearest page is within the threshold and not yet
\* seen confirms that page (added to seen_slide_indices, current_slide_index
\* set to it, entered in the map) if the distance is < 2, whatever the text
\* similarity, and if the distance is >= 2 exactly when the text similarity
\* clears its threshold; no other frame and no other step confirms anything.
C5_ConfirmRule ==
    [][ LET m == Match(frame)
            processed == gen = "yielded" /\ gen' = "running"
            eligible == m # None /\ m[1] \notin seen_slide_indices
            confirmed == /\ seen_slide_indices' = seen_slide_indices \cup {m[1]}
                         /\ current_slide_index' = m[1]
                         /\ slide_changes' = Append(slide_changes,
                                [slide_index |-> m[1], frame_number |-> frame.frame_number])
            untouched == /\ seen_slide_indices' = seen_slide_indices
                         /\ current_slide_index' = current_slide_index
                         /\ slide_changes' = slide_changes
        IN  /\ (processed /\ eligible /\ m[2] < 2) => confirmed
            /\ (processed /\ eligible /\ m[2] >= 2 /\ frame.text_similar) => confirmed
            /\ (processed /\ eligible /\ m[2] >= 2 /\ ~frame.text_similar) => untouched
            /\ (~processed \/ ~eligible) => untouched
      ]_vars

\* the frame processed last confirmed its page at a distance >= 2, on the
\* strength of the text similarity
C5_Witness ==
    /\ gen = "running"
    /\ Len(slide_changes) = 1
    /\ frame.text_similar
    /\ Match(frame) # None
    /\ Match(frame)[2] >= 2
    /\ Match(frame)[1] = slide_changes[1].slide_index
    /\ frame.frame_number = slide_changes[1].frame_number
    /\ yields = 1

\* C6: current_slide_index and seen_slide_indices change only by
\* mark_slide_as_seen; a sampled frame without a match, with an already seen
\* match or with a failed corroboration leaves tracker and map unchanged.
C6_FrameEffect ==
    [][ LET m == Match(frame)
            rejected == \/ m = None
                        \/ has_seen_slide(m[1])
                        \/ (m[2] >= DEFINITE_MATCH_DISTANCE /\ ~frame.text_similar)
        IN  /\ (gen = "yielded" /\ rejected) =>
                UNCHANGED <<current_slide_index, seen_slide_indices, slide_changes>>
            /\ (current_slide_index' # current_slide_index
                \/ seen_slide_indices' # seen_slide_indices) =>
                \E index \in 0 .. (Len(hashes) - 1) :
                    /\ seen_slide_indices' = seen_slide_indices \cup {index}
                    /\ current_slide_index' = index
                    /\ Len(slide_changes') = Len(slide_changes) + 1
      ]_vars

\* after a confirmation, a later frame matching the page already seen was
\* processed and changed nothing
C6_Witness ==
    /\ gen = "running"
    /\ Len(slide_changes) = 1
    /\ yields >= 2
    /\ Match(frame) # None
    /\ has_seen_slide(Match(frame)[1])
    /\ frame.frame_number > slide_changes[1].frame_number
    /\ current_slide_index = slide_changes[1].slide_index
    /\ seen_slide_indices = {current_slide_index}

C8_EverySthDecoded ==
    /\ frame # NoFrame => frame.frame_number >= start_frame_number
    /\ gen = "yielded" => (all_pos - 1) % frames_step = 0
    /\ (gen = "yielded" /\ yields > 1) => skipped_all = frames_step - 1

\* C8 amended: frames without a pts are dropped without being counted; the
\* yielded frames are those at positions 0, s, 2s, ... of the decoded frames
\* that carry a pts, counted from the first one with a number >= start, and
\* exactly s-1 frames with a pts are skipped between two consecutive yields.
C8_EverySthWithPts ==
    /\ frame # NoFrame => frame.frame_number >= start_frame_number
    /\ elig_pos = 0 => yields = 0
    /\ elig_pos > 0 => yields = ((elig_pos - 1) \div frames_step) + 1
    /\ gen = "yielded" => (elig_pos - 1) % frames_step = 0
    /\ (gen = "yielded" /\ yields > 1) => skipped_pts = frames_step - 1

\* a second yield with a stride > 1 after a start > 0, a frame without pts
\* having been dropped in between
C8_Witness ==
    /\ gen = "yielded"
    /\ yields >= 2
    /\ frames_step >= 2
    /\ start_frame_number > 0
    /\ skipped_all > skipped_pts

\* C9: of two consecutively yielded frames the later one has the strictly
\* greater frame number.
C9_StrictlyIncreasing ==
    [][ (gen = "running" /\ gen' = "yielded" /\ yields > 0) =>
            frame'.frame_number > frame.frame_number ]_vars

\* C10: the container is open only while the generator runs or is suspended
\* at a yield; once the frames are exhausted, the consumer has stopped or an
\* error was raised it is closed, stays closed, and no frame is yielded then;
\* every run gets there.
C10_ContainerReleased ==
    /\ [](container = "open" => gen \in {"running", "yielded"})
    /\ [](gen = "done" => container = (IF decoded > 0 \/ error # "none" THEN "closed"
                                        ELSE container))
    /\ [](gen = "done" => container # "open")
    /\ [][ container = "closed" =>
             (container' = "closed" /\ frame' = frame /\ yields' = yields
              /\ gen' = "done") ]_vars
    /\ (container = "open") ~> (container = "closed")
    /\ <>[](container # "open")

\* the consumer stopped after two frames and the container is closed
C10_Witness ==
    /\ gen = "done"
    /\ error = "GeneratorExit"
    /\ yields >= 2
    /\ container = "closed"

\* C11: a stream without average_rate or time_base makes the Frame Source
\* fail with its metadata error on the first request: nothing was sought,
\* decoded or yielded, the container is not left open, and after the error the
\* generator does nothing more (no retry).
C11_MetadataErrorFirst ==
    /\ [](metadata # "ok" =>
            /\ seeks = 0 /\ decoded = 0 /\ yields = 0 /\ frame = NoFrame
            /\ container # "open"
            /\ gen \in {"created", "done"}
            /\ (gen = "done" /\ container # "unopened") => error = "ValueError")
    /\ [](error = "ValueError" => (metadata # "ok" /\ gen = "done"))
    /\ [][ error = "ValueError" => UNCHANGED vars ]_vars

\* the first request on a stream without time_base raised the error
C11_Witness ==
    /\ metadata = "no_time_base"
    /\ error = "ValueError"
    /\ gen = "done"
    /\ container = "closed"

\* the keyword occurs in the text, ignoring case, delimited on both sides by
\* the end of the text or a character that is no word character
StandaloneIn(keyword, text) ==
    \E i \in 0 .. Len(text) :
        /\ literal_at(keyword, text, i)
        /\ (i = 0 \/ text[i] \notin Letters)
        /\ (i + Len(keyword) = Len(text) \/ text[i + Len(keyword) + 1] \notin Letters)

\* the rows of the table that count for a keyword at a threshold
MatchingRows(data, keyword, threshold) ==
    { i \in 1 .. Len(data) :
        /\ data[i].conf >= threshold
        /\ strip(data[i].text) # << >>
        /\ StandaloneIn(keyword, strip(data[i].text)) }

RECURSIVE WithoutRows(_, _)
WithoutRows(data, rows) ==
    IF data = << >> THEN << >>
    ELSE LET rest == WithoutRows(SubSeq(data, 1, Len(data) - 1), rows)
         IN  IF Len(data) \in rows THEN rest ELSE Append(rest, data[Len(data)])

\* C15: are_all_keywords_present returns true if and only if every required
\* keyword matches (ignoring case, as a whole word) at least one non-empty OCR
\* word with a confidence >= the threshold; with the words matching any one
\* keyword removed from the table the result is false.
C15_AllKeywordsIff ==
    pc = "return" =>
        /\ oracle_result <=>
               \A k \in keywords : MatchingRows(ocr_data, k, confidence_threshold) # {}
        /\ \A k \in keywords :
               ~are_all_keywords_present(
                    WithoutRows(ocr_data, MatchingRows(ocr_data, k, confidence_threshold)),
                    keywords, confidence_threshold)

\* C16: acceptance is monotone in the confidence threshold: a table and
\* keyword set accepted at a threshold is accepted at every lower threshold.
C16_MonotoneInThreshold ==
    (pc = "return" /\ oracle_result) =>
        \A t \in Thresholds :
            t <= confidence_threshold => are_all_keywords_present(ocr_data, keywords, t)

\* accepted at threshold 80 on the strength of a word of confidence exactly
\* 80, next to a word that only counts at a lower threshold
C16_Witness ==
    /\ pc = "return"
    /\ oracle_result
    /\ confidence_threshold = 80
    /\ keywords # {}
    /\ \E i, j \in 1 .. Len(ocr_data) : ocr_data[i].conf = 80 /\ ocr_data[j].conf = 50
    /\ \A i \in 1 .. Len(ocr_data) : ocr_data[i].conf <= 80

\* the region the locator selects: the first contour of the largest area
Selected(img) ==
    CHOOSE i \in 1 .. Len(img.contours) :
        /\ \A j \in 1 .. Len(img.contours) : img.contours[j].area <= img.contours[i].area
        /\ \A j \in 1 .. (i - 1) : img.contours[j].area < img.contours[i].area

\* C17: the RoI locator fails with its not-found error whenever the frame has
\* no contour or the selected region is narrower than 500, lower than 500 or
\* smaller than 5000; it returns no rectangle then, and a rectangle it
\* returns is never degenerate.
C17_SmallRegionRejected ==
    pc = "return" =>
        LET none == image.contours = << >>
            small == /\ ~none
                     /\ LET c == image.contours[Selected(image)]
                        IN  c.w < 500 \/ c.h < 500 \/ c.w * c.h < 5000
        IN  /\ (none \/ small) => roi_result = [raised |-> "ValueError", value |-> None]
            /\ roi_result.raised = "none" =>
                   /\ ~none /\ ~small
                   /\ roi_result.value[1] < roi_result.value[3]
                   /\ roi_result.value[2] < roi_result.value[4]

\* the locator failed on an image whose largest contour is one pixel too
\* narrow, a second contour being large enough
C17_Witness ==
    /\ pc = "return"
    /\ roi_result.raised = "ValueError"
    /\ Len(image.contours) = 2
    /\ image.contours[Selected(image)].w = 499
    /\ image.contours[Selected(image)].h = 500
    /\ \E i \in 1 .. 2 : image.contours[i].w >= 500 /\ image.contours[i].h >= 500

\* a step that keeps the frame instance
SameFrame == yields' = yields /\ frame # NoFrame

\* the coordinates given to the Frame Source are on every frame it yields,
\* a frame that has coordinates keeps them and computes nothing, and only a
\* frame without coordinates ever computes
RoiFrozen ==
    /\ [][ yields' # yields =>
             /\ frame'.roi_coordinates = roi_coordinates
             /\ frame'.compute_calls = 0 ]_vars
    /\ [][ (SameFrame /\ frame.roi_coordinates # None) =>
             /\ frame'.roi_coordinates = frame.roi_coordinates
             /\ frame'.compute_calls = frame.compute_calls ]_vars
    /\ [](roi_coordinates # None =>
             /\ frame.compute_calls = 0
             /\ (frame # NoFrame => frame.roi_coordinates = roi_coordinates))

\* C18 as stated: the RoI is frozen for the run, and compute_roi_coordinates
\* runs at most once per frame instance.
C18_ComputedAtMostOnce ==
    /\ RoiFrozen
    /\ [](frame.compute_calls <= 1)

\* C18 amended: the RoI is frozen for the run; a computation that returned a
\* rectangle is never repeated on the frame, a computation that failed is
\* repeated by the next access of roi_frame or roi_hash.
C18_ComputedOnceUnlessFailed ==
    /\ RoiFrozen
    /\ [](frame.roi_coordinates # None => frame.compute_calls <= 1)
    /\ [](frame.compute_calls > 1 =>
             /\ frame.roi_coordinates = None
             /\ compute_roi_coordinates(frame.image).raised = "ValueError")

\* roi_frame and roi_hash were read on a second frame that came without
\* coordinates; the one computation gave it a rectangle
C18_Witness ==
    /\ gen = "yielded"
    /\ yields >= 2
    /\ roi_coordinates = None
    /\ frame.cached = {"roi_frame", "roi_hash"}
    /\ frame.compute_calls = 1
    /\ frame.roi_coordinates = compute_roi_coordinates(frame.image).value

\* C12: a detection run that finds no first slide within the scan cap, or no
\* RoI on the anchor frame, ends in FirstSlideNotFoundError or
\* RoiNotFoundError reaching its caller, and returns no Transition Map.
C12_FailureReachesCaller ==
    run_result.returned =>
        /\ ~first_slide_result.found => run_result.raised = "FirstSlideNotFoundError"
        /\ (first_slide_result.found /\ roi_result.value = None) =>
               run_result.raised = "RoiNotFoundError"

\* C13: the first-slide scan ends; it applies the keyword oracle to at most
\* int(max_seconds * fps) frames, in increasing frame order from frame 0,
\* and stops at the first frame accepted, at the cap or at the end of the
\* video, whichever comes first.
C13_ScanCapped ==
    /\ [](/\ Len(evaluated) <= (max_seconds * fps_halves) \div 2
          /\ Len(evaluated) <= Len(video)
          /\ \A i \in 1 .. Len(evaluated) : evaluated[i] = i - 1
          /\ \A i \in 1 .. (Len(evaluated) - 1) : ~FirstSlideOracle(video[evaluated[i] + 1]))
    /\ [][ Len(evaluated') > Len(evaluated) =>
             (pc = "scan" /\ \A i \in 1 .. Len(evaluated) :
                                ~FirstSlideOracle(video[evaluated[i] + 1])) ]_vars
    /\ [](pc \in {"found", "no_first_slide"} =>
             \/ (first_slide_result.found /\ evaluated # << >>
                 /\ FirstSlideOracle(video[evaluated[Len(evaluated)] + 1]))
             \/ (~first_slide_result.found
                 /\ (\/ Len(evaluated) = (max_seconds * fps_halves) \div 2
                     \/ Len(evaluated) = Len(video))))
    /\ <>(pc \notin {"start", "scan"})

\* the scan gave up at the cap, before a frame it would have accepted
C13_Witness ==
    /\ pc = "no_first_slide"
    /\ Len(evaluated) = max_attempts
    /\ max_attempts = 1
    /\ max_seconds * fps_halves = 3
    /\ Len(video) = 3
    /\ FirstSlideOracle(video[2])

\* C14: a successful first-slide scan returns the lowest-numbered frame of
\* the video that satisfies the keyword oracle, with its frame number and
\* its image: every frame with a smaller number failed the oracle.
C14_FirstAccepted ==
    first_slide_result.found =>
        LET n == first_slide_result.frame_count
        IN  /\ n \in 0 .. (Len(video) - 1)
            /\ first_slide_result.frame = video[n + 1]
            /\ FirstSlideOracle(video[n + 1])
            /\ \A m \in 0 .. (n - 1) : ~FirstSlideOracle(video[m + 1])

\* the third frame was returned, after a black frame and a title slide that
\* OCR was not sure about
C14_Witness ==
    /\ first_slide_result.found
    /\ first_slide_result.frame_count = 2
    /\ video[1] = BlankScanFrame
    /\ video[2].ocr_data # << >>
    /\ video[2].ocr_data[1].conf < DEFAULT_CONFIDENCE_THRESHOLD

\* the page indices entered in the map
MapIndices == { slide_changes[i].slide_index : i \in 1 .. Len(slide_changes) }

\* C19: the Transition Map gets exactly one entry per confirmed transition,
\* appended when the transition is confirmed and carrying the number of the
\* confirming frame; a frame that confirms nothing adds no entry, and when
\* the Frame Source is exhausted the run ends without a further entry.
C19_OneEntryPerConfirmation ==
    /\ [][ slide_changes' # slide_changes =>
             /\ gen = "yielded" /\ gen' = "running"
             /\ ConfirmsTransition(frame)
             /\ slide_changes' = Append(slide_changes,
                    [slide_index |-> Match(frame)[1], frame_number |-> frame.frame_number]) ]_vars
    /\ [][ (gen = "yielded" /\ gen' = "running" /\ ConfirmsTransition(frame)) =>
             Len(slide_changes') = Len(slide_changes) + 1 ]_vars
    /\ [](/\ Len(slide_changes) = Cardinality(seen_slide_indices)
          /\ MapIndices = seen_slide_indices
          /\ slide_changes # << >> =>
                 slide_changes[Len(slide_changes)].slide_index = current_slide_index)
    /\ [][ gen = "done" => UNCHANGED vars ]_vars

\* the Frame Source was exhausted after three frames, two of which confirmed
\* a transition
C19_Witness ==
    /\ gen = "done"
    /\ error = "none"
    /\ yields = 3
    /\ Len(slide_changes) = 2
    /\ slide_changes[1].frame_number < slide_changes[2].frame_number

\* C20: a sampled frame whose decoding fails is skipped and the run goes on
\* with the next sampled frame: a decoding failure does not end the run.
C20_BadFrameSkipped ==
    /\ [][ error' = "DecodeError" =>
             UNCHANGED <<current_slide_index, seen_slide_indices, slide_changes>> ]_vars
    /\ [](error = "DecodeError" => gen # "done")

\* what the locator answers when it works on the bounding box of contour c
OutcomeFor(img, c) ==
    IF c.w < 500 \/ c.h < 500 \/ c.w * c.h < 5000
    THEN [raised |-> "ValueError", value |-> None]
    ELSE [raised |-> "none",
          value |-> << Max(0, c.x - 5), Max(0, c.y - 5),
                       Min(img.width, c.x + c.w - 5), Min(img.height, c.y + c.h - 5) >>]

\* the contours whose bounding box has the largest area
LargestBoxes(img) ==
    { i \in 1 .. Len(img.contours) :
        \A j \in 1 .. Len(img.contours) :
            img.contours[j].w * img.contours[j].h <= img.contours[i].w * img.contours[i].h }

\* C23 as stated: the locator selects the contour whose bounding box has the
\* largest area; gates and rectangle are those of that bounding box.
C23_LargestBoundingBox ==
    (pc = "return" /\ image.contours # << >>) =>
        \E i \in LargestBoxes(image) : roi_result = OutcomeFor(image, image.contours[i])

\* C23 amended: the locator selects the first contour of the largest
\* cv2.contourArea, which need not have the largest bounding box; gates and
\* rectangle are those of the selected contour's bounding box.
C23_LargestContourArea ==
    (pc = "return" /\ image.contours # << >>) =>
        roi_result = OutcomeFor(image, image.contours[Selected(image)])

\* the contour of the largest area has a small bounding box and is rejected,
\* while the contour with the largest bounding box would have been accepted
C23_Witness ==
    /\ pc = "return"
    /\ Len(image.contours) = 2
    /\ Selected(image) \notin LargestBoxes(image)
    /\ roi_result.raised = "ValueError"
    /\ \A i \in LargestBoxes(image) : OutcomeFor(image, image.contours[i]).raised = "none"

\* C24: every deck page that is shown can be confirmed, also a page whose
\* hash equals that of another page: on a video that shows all pages of the
\* deck in order, each for at least one stride, all pages are confirmed when
\* the video has ended.
C24_TiedPagesConfirmed ==
    (/\ video_kind = "synthetic"
     /\ \A k \in 1 .. Len(seg_len) : seg_len[k] >= frames_step
     /\ gen = "done")
    => seen_slide_indices = 0 .. (Len(hashes) - 1)

\* C25: current_slide_index is -1 exactly when seen_slide_indices is empty
\* and a member of it otherwise; seen_slide_indices never loses an element,
\* has as many elements as the Transition Map has entries, and no more than
\* the deck has pages.
C25_TrackerInvariant ==
    /\ [](/\ (current_slide_index = -1) <=> (seen_slide_indices = {})
          /\ seen_slide_indices # {} => current_slide_index \in seen_slide_indices
          /\ Cardinality(seen_slide_indices) = Len(slide_changes)
          /\ Cardinality(seen_slide_indices) <= Len(hashes)
          /\ seen_slide_indices \subseteq 0 .. (Len(hashes) - 1))
    /\ [][ seen_slide_indices \subseteq seen_slide_indices' ]_vars

\* all three pages of a deck are seen, the one confirmed last is current
C25_Witness ==
    /\ Len(hashes) = 3
    /\ Cardinality(seen_slide_indices) = 3
    /\ Len(slide_changes) = 3
    /\ current_slide_index = slide_changes[3].slide_index

\* C30 as stated: a rectangle the locator returns lies inside the image,
\* 0 <= left < right <= width and 0 <= top < bottom <= height, and after
\* padding removal and clipping is still at least 500 wide and 500 high.
C30_ClippedStillLarge ==
    (pc = "return" /\ roi_result.raised = "none") =>
        LET r == roi_result.value
        IN  /\ 0 <= r[1] /\ r[1] < r[3] /\ r[3] <= image.width
            /\ 0 <= r[2] /\ r[2] < r[4] /\ r[4] <= image.height
            /\ r[3] - r[1] >= 500
            /\ r[4] - r[2] >= 500

\* C30 amended: the rectangle lies inside the image and is not degenerate;
\* the size gates hold for the bounding box before clipping, so that the
\* rectangle is at least 500 minus the padding on each clipped side wide and
\* high, and no larger than the bounding box.
C30_ClippedInsideImage ==
    (pc = "return" /\ roi_result.raised = "none") =>
        LET r == roi_result.value
            c == image.contours[Selected(image)]
        IN  /\ 0 <= r[1] /\ r[1] < r[3] /\ r[3] <= image.width
            /\ 0 <= r[2] /\ r[2] < r[4] /\ r[4] <= image.height
            /\ c.w >= 500 /\ c.h >= 500
            /\ r[3] - r[1] >= 500 - 2 * 5 /\ r[3] - r[1] <= c.w
            /\ r[4] - r[2] >= 500 - 2 * 5 /\ r[4] - r[2] <= c.h

\* a bounding box exactly 500 wide at the left border of the padded image
\* gave a rectangle narrower than 500
C30_Witness ==
    /\ pc = "return"
    /\ roi_result.raised = "none"
    /\ image.contours[Selected(image)].w = 500
    /\ image.contours[Selected(image)].x < 5
    /\ roi_result.value[1] = 0
    /\ roi_result.value[3] - roi_result.value[1] < 500

\* the largest end time of the transcript entries, in seconds
TranscriptEnd ==
    srt_time_to_seconds(CHOOSE m \in { srt_content[i].end : i \in 1 .. Len(srt_content) } :
                            \A i \in 1 .. Len(srt_content) : srt_content[i].end <= m)

\* the slide timestamps t_1 <= ... <= t_n
AscendingTimes ==
    [ i \in 1 .. Len(slide_timestamps) |->
        CHOOSE v \in SlideTimes :
            /\ Cardinality({ j \in 1 .. Len(slide_timestamps) : slide_timestamps[j][2] < v }) < i
            /\ i <= Cardinality({ j \in 1 .. Len(slide_timestamps) : slide_timestamps[j][2] <= v }) ]

\* end of the range that starts at the i-th timestamp
RangeEnd(i) == IF i < Len(slide_timestamps) THEN AscendingTimes[i + 1] ELSE TranscriptEnd

Merged == pc = "return" /\ video_kind = "merge" /\ merge_result.raised = "none"

\* blocks are in ascending time order and do not overlap
BlocksAscending ==
    /\ \A k \in 1 .. Len(merge_result.blocks) : merge_result.blocks[k].start < merge_result.blocks[k].end
    /\ \A k \in 1 .. (Len(merge_result.blocks) - 1) :
           merge_result.blocks[k].end <= merge_result.blocks[k + 1].start

\* C22 as stated: a block of number i starts at t_i and ends at t_(i+1), the
\* last block of the output ends at the largest end time of the transcript
\* entries, and the blocks are in ascending time order without overlap.
C22_BoundariesAreSlideTimes ==
    Merged =>
        LET blocks == merge_result.blocks
        IN  /\ \A k \in 1 .. Len(blocks) :
                   /\ blocks[k].index \in 1 .. Len(slide_timestamps)
                   /\ blocks[k].start = AscendingTimes[blocks[k].index]
                   /\ blocks[k].index < Len(slide_timestamps)
                          => blocks[k].end = AscendingTimes[blocks[k].index + 1]
            /\ Len(blocks) > 0 => blocks[Len(blocks)].end = TranscriptEnd
            /\ BlocksAscending

\* C22 amended: the block of number i spans from t_i to t_(i+1), the block of
\* number n from t_n to the largest end time of the transcript entries; a
\* block is emitted exactly when its span is not empty, so that the last
\* emitted block ends at t_n when t_n is not before the end of the transcript;
\* the blocks are in ascending time order without overlap, and the SRT text
\* carries the boundaries truncated to milliseconds.
C22_BoundariesOfEmittedBlocks ==
    Merged =>
        LET blocks == merge_result.blocks
            emitted == { i \in 1 .. Len(slide_timestamps) : AscendingTimes[i] < RangeEnd(i) }
        IN  /\ { blocks[k].index : k \in 1 .. Len(blocks) } = emitted
            /\ Len(blocks) = Cardinality(emitted)
            /\ \A k \in 1 .. Len(blocks) :
                   /\ blocks[k].start = AscendingTimes[blocks[k].index]
                   /\ blocks[k].end = RangeEnd(blocks[k].index)
            /\ BlocksAscending
            /\ Len(merge_result.srt) = Len(blocks)
            /\ \A k \in 1 .. Len(blocks) :
                   /\ merge_result.srt[k].start = blocks[k].start \div TicksPerMs
                   /\ merge_result.srt[k].end = blocks[k].end \div TicksPerMs

\* the last slide change is not before the end of the transcript: its block
\* is left out and the last emitted block ends after the transcript
C22_Witness ==
    /\ Merged
    /\ Len(slide_timestamps) = 2
    /\ AscendingTimes[2] > TranscriptEnd
    /\ Len(merge_result.blocks) = 1
    /\ merge_result.blocks[1].index = 1
    /\ merge_result.blocks[1].end = AscendingTimes[2]

\* number of times the text of entry i occurs in the merged blocks
Occurrences(i) ==
    Cardinality({ kp \in (1 .. Len(merge_result.blocks)) \X (1 .. MaxEntries + 1) :
                    /\ kp[2] <= Len(merge_result.blocks[kp[1]].text)
                    /\ merge_result.blocks[kp[1]].text[kp[2]] = srt_content[i].text })

\* C27: for every transcript and every non-empty slide map, the text of each
\* transcript entry is in exactly one merged block, the block whose
\* [start, end) contains the start time of the entry.
C27_NoTextLost ==
    (Merged /\ slide_timestamps # << >>) =>
        \A i \in 1 .. Len(srt_content) :
            /\ Occurrences(i) = 1
            /\ \E k \in 1 .. Len(merge_result.blocks) :
                   /\ \E p \in 1 .. Len(merge_result.blocks[k].text) :
                          merge_result.blocks[k].text[p] = srt_content[i].text
                   /\ merge_result.blocks[k].start <= srt_time_to_seconds(srt_content[i].start)
                   /\ srt_time_to_seconds(srt_content[i].start) < merge_result.blocks[k].end

\* C28: the blocks of the merged SRT are numbered 1, 2, ..., k in output
\* order, for every slide map.
C28_NumberedConsecutively ==
    Merged => \A k \in 1 .. Len(merge_result.srt) : merge_result.srt[k].index = k

\* C29: one chapter per map entry, ordered by ascending timestamp, START <= END
\* for each; the END of every chapter but the last is the START of the next,
\* and the END of the last is its START plus 1000 ms.
C29_ChaptersContiguous ==
    (pc = "return" /\ video_kind = "chapters") =>
        LET n == Len(chapter_metadata)
        IN  /\ n = Len(slide_timestamps)
            /\ \A i \in 1 .. n :
                   /\ chapter_metadata[i].START = AscendingTimes[i] \div TicksPerMs
                   /\ chapter_metadata[i].START <= chapter_metadata[i].END
            /\ \A i \in 1 .. (n - 1) : chapter_metadata[i].END = chapter_metadata[i + 1].START
            /\ n > 0 => chapter_metadata[n].END = chapter_metadata[n].START + 1000

\* C21: a failure while processing one pair does not stop the batch: when the
\* batch has answered, every pair has been processed, the answer is the batch
\* response and holds the merged SRT of every pair that succeeded.
C21_BatchSurvivesFailures ==
    (/\ video_kind = "batch"
     /\ batch_response.status # "pending"
     /\ \E i \in 1 .. Len(video_pdf_pairs) : video_pdf_pairs[i].outcome # "ok") =>
        /\ pair_index = Len(video_pdf_pairs)
        /\ batch_response.status = "200"
        /\ \A i \in 1 .. Len(video_pdf_pairs) :
               video_pdf_pairs[i].outcome = "ok" =>
                   << << video_pdf_pairs[i].stem, "_merged.srt" >>, i >> \in batch_response.files

\* C26: for any interleaving of requests, the artifact a response streams
\* exists at its path when the response is sent and holds the result of its
\* own request, and no step of one request replaces or removes the artifact
\* of another request whose response is still to be sent.
C26_ArtifactsIsolated ==
    /\ [](video_kind = "server" =>
            \A r \in 1 .. Len(requests) :
                /\ requests[r].state \in { "sent", "done" } => requests[r].streamed = r
                /\ requests[r].state = "returned" =>
                       /\ exists(media_folder, final_path_of(requests[r]))
                       /\ read_file(media_folder, final_path_of(requests[r])) = r)
    /\ [][ video_kind = "server" =>
             \A r \in 1 .. Len(requests) :
                 (requests[r].state = "returned" /\ requests'[r].state = "returned") =>
                     \A f \in media_folder :
                         f[1] = final_path_of(requests[r]) => f \in media_folder' ]_vars

====
